---- MODULE Spec2Model ----
(***************************************************************************)
(* Model of the HTML fragment translator (language_engine.py) and of the   *)
(* HTTP response hook that calls it (app.py).                              *)
(*                                                                         *)
(* A string is a sequence of atoms.  An atom is a short run of characters  *)
(* that no regular expression of the program can match only a part of:     *)
(* "<", ">", "/", one blank, one double quote, a tag or attribute name, a  *)
(* word, a number.  The concrete string is the concatenation of the atoms. *)
(* Every regular expression of the source is an operator over atom         *)
(* sequences that follows the expression's own matching order (leftmost,   *)
(* greedy or lazy as written).                                             *)
(***************************************************************************)
EXTENDS Integers, Sequences, FiniteSets, TLC

VARIABLES
    mode,            \* which entry point this run exercises: "fragment", "batch", "hook"
    html,            \* translate_html_fragment: argument html
    lang_in,         \* translate_html_fragment / _deepl_batch: argument lang, as given
    lang,            \* lang after normalise_lang (line 122)
    key,             \* DEEPL_API_KEY is configured (line 5)
    pc,              \* position in translate_html_fragment / _deepl_batch
    parts,           \* line 127
    pos,             \* index of the next element of parts the for loop (line 142) takes
    out,             \* line 128
    jobs,            \* line 129
    jobs_idx,        \* line 130 (1-based here: index into out)
    jobs_brandbags,  \* line 131
    jobs_brackbags,  \* line 132
    in_script,       \* line 134
    in_style,        \* line 135
    resp,            \* what the provider answered to the one requests.post (line 37)
    translated,      \* line 172: what _deepl_batch returned
    ri,              \* index of the enumerate loop of line 173
    html2,           \* line 178 and on
    result,          \* the value returned (line 124 or 198)
    calls,           \* number of invocations of _deepl_batch
    posts,           \* number of requests.post calls
    sent,            \* the texts _deepl_batch was invoked with, and the loop position then
    req,             \* app.py: the request, and the response the route produced (data: its body)
    body,            \* app.py: resp.get_data()
    pen_lang,        \* app.py: request._pen_lang
    hpc              \* position in the request's life cycle

vars == <<mode, html, lang_in, lang, key, pc, parts, pos, out, jobs, jobs_idx,
          jobs_brandbags, jobs_brackbags, in_script, in_style, resp, translated,
          ri, html2, result, calls, posts, sent, req, body, pen_lang, hpc>>

fragVars == <<html, lang_in, lang, key, pc, parts, pos, out, jobs, jobs_idx,
              jobs_brandbags, jobs_brackbags, in_script, in_style, resp,
              translated, ri, html2, result, calls, posts, sent>>

hookVars == <<req, body, pen_lang, hpc>>

(***************************************************************************)
(* Bounds of the model.                                                    *)
(***************************************************************************)
MaxLen == 5          \* atoms in a document of Spec
MaxPieces == 3       \* pieces in a document of SpecDoc
MaxBrandPieces == 3  \* pieces in a document of SpecBrand
MaxTexts == 2        \* texts handed to _deepl_batch in SpecBatch
MaxHookPieces == 2   \* pieces in a response body of SpecHook

(***************************************************************************)
(* Characters of atoms.                                                    *)
(***************************************************************************)
\* Python's None, where the provider's JSON holds null for "text".
NONE == <<"<None>">>

SpaceAtoms == {" "}

\* Atoms made of non-word characters only (regex \W; none holds "_").
PunctAtoms == {"<", ">", "/", "\"", "{{", "}}", "[[", "]]", "-", "%"}

\* Atoms whose first character is not a word character.
NonWordFirst == PunctAtoms \cup SpaceAtoms \cup {".ai", ".AI", "'ltr'"}

\* Atoms whose last character is not a word character.
NonWordLast == PunctAtoms \cup SpaceAtoms \cup
               {"data-", "'ltr'", "lang=", "dir=", "name=", "content="}

\* Atoms made only of characters of [\d\.\,\:\-\+\(\)%\s] (line 112).
NumericAtoms == {"12", "-", "%", " "}

FirstIsWord(a) == a \notin NonWordFirst
LastIsWord(a) == a \notin NonWordLast
IsSpace(a) == a \in SpaceAtoms

\* str.lower() on the atoms the program compares case-insensitively.
Lower(a) ==
    CASE a = "HTML" -> "html"
      [] a = "HEAD" -> "head"
      [] a = "SCRIPT" -> "script"
      [] a = "STYLE" -> "style"
      [] a = "OFF" -> "off"
      [] OTHER -> a

Min(S) == CHOOSE x \in S : \A y \in S : x <= y
Max(S) == CHOOSE x \in S : \A y \in S : x >= y

RECURSIVE Flatten(_)
Flatten(ss) == IF ss = <<>> THEN <<>> ELSE Head(ss) \o Flatten(Tail(ss))

\* Whether sub occurs in s as a contiguous run.
Contains(s, sub) ==
    \E i \in 1..(Len(s) + 1) :
        /\ i + Len(sub) - 1 <= Len(s)
        /\ \A k \in 1..Len(sub) : s[i + k - 1] = sub[k]

\* Index of the first atom a at or after from, 0 if none.
FirstAt(s, from, a) ==
    LET S == {i \in from..Len(s) : s[i] = a}
    IN IF S = {} THEN 0 ELSE Min(S)

(***************************************************************************)
(* normalise_lang, is_rtl                                                  *)
(***************************************************************************)
\* s.strip().lower() on the language strings of the model.
StripLower(s) ==
    CASE s = " fr " -> "fr"
      [] s = "EN-gb" -> "en-gb"
      [] s = "AR" -> "ar"
      [] OTHER -> s

LANG_MAP_KEYS == {"en", "en-gb", "en-us", "ar", "ru", "fr", "es", "de", "it",
                  "zh", "zh-cn", "zh-hans", "zh-hant"}

LANG_MAP(k) ==
    CASE k \in {"en", "en-gb", "en-us"} -> "en"
      [] k \in {"zh", "zh-cn", "zh-hans", "zh-hant"} -> "zh"
      [] OTHER -> k

normalise_lang(s) ==
    IF s = "" THEN "en"
    ELSE IF StripLower(s) \in LANG_MAP_KEYS THEN LANG_MAP(StripLower(s)) ELSE "en"

RTL == {"ar"}

is_rtl(l) == normalise_lang(l) \in RTL

(***************************************************************************)
(* re.split(r"(<[^>]+>)", html), line 127                                  *)
(***************************************************************************)
\* Last index of the match of <[^>]+> that starts at i, 0 if there is none.
TagEndAt(d, i) ==
    IF d[i] # "<" THEN 0
    ELSE LET g == FirstAt(d, i + 1, ">")
         IN IF g > i + 1 THEN g ELSE 0

RECURSIVE SplitRec(_, _, _)
SplitRec(d, p, textStart) ==
    IF p > Len(d) THEN << SubSeq(d, textStart, Len(d)) >>
    ELSE IF TagEndAt(d, p) > 0
         THEN << SubSeq(d, textStart, p - 1), SubSeq(d, p, TagEndAt(d, p)) >>
              \o SplitRec(d, TagEndAt(d, p) + 1, TagEndAt(d, p) + 1)
         ELSE SplitRec(d, p + 1, textStart)

\* A split that leaves the separators out (re.split without the capture group).
SplitNoCapture(d) ==
    LET all == SplitRec(d, 1, 1)
    IN [i \in 1..((Len(all) + 1) \div 2) |-> all[2 * i - 1]]

Split(d) == SplitRec(d, 1, 1)

\* The whole of t is one match of <[^>]+>.
IsTagToken(t) == Len(t) >= 3 /\ TagEndAt(t, 1) = Len(t)

(***************************************************************************)
(* is_opening, is_closing, lines 137-140                                   *)
(***************************************************************************)
\* Index of the first atom of t at or after i that is not white space.
SkipSpace(t, i) ==
    LET S == {k \in i..Len(t) : ~IsSpace(t[k])}
    IN IF S = {} THEN Len(t) + 1 ELSE Min(S)

\* re.match(name + r"\b") at index i of t.
NameAt(t, i, name) ==
    /\ i <= Len(t)
    /\ Lower(t[i]) = name
    /\ (i = Len(t) \/ ~FirstIsWord(t[i + 1]))

StartsWith(t, a) == Len(t) >= 1 /\ t[1] = a

is_opening(tagname, t) ==
    /\ StartsWith(t, "<")
    /\ NameAt(t, SkipSpace(t, 2), tagname)
    /\ ~(Len(t) >= 2 /\ t[2] = "/")

is_closing(tagname, t) ==
    /\ StartsWith(t, "<")
    /\ LET s == SkipSpace(t, 2)
       IN /\ s <= Len(t)
          /\ t[s] = "/"
          /\ NameAt(t, SkipSpace(t, s + 1), tagname)

(***************************************************************************)
(* should_skip_text, lines 103-114                                         *)
(***************************************************************************)
IsBlank(t) == \A i \in 1..Len(t) : IsSpace(t[i])

\* len(text.strip()) for a text that is not blank.
RECURSIVE CharLen(_)
CharLen(t) == IF t = <<>> THEN 0 ELSE Len(Head(t)) + CharLen(Tail(t))

StripLen(t) ==
    LET S == {i \in 1..Len(t) : ~IsSpace(t[i])}
    IN IF S = {} THEN 0 ELSE CharLen(SubSeq(t, Min(S), Max(S)))

should_skip_text(t) ==
    \/ IsBlank(t)
    \/ StripLen(t) <= 1
    \/ \A i \in 1..Len(t) : t[i] \in PunctAtoms \cup SpaceAtoms
    \/ \A i \in 1..Len(t) : t[i] \in NumericAtoms

(***************************************************************************)
(* Protection helpers, lines 53-84                                         *)
(***************************************************************************)
BRAND_TOKENS == { <<"PEN", ".ai">>, <<"PEN">>, <<"Cognitive", " ", "College">>,
                  <<"More", " ", "House">>, <<"PEN", " ", "Reply">> }

\* The alternatives in the opposite order: shortest first.
TOKEN_RE_ShortestFirst ==
    CHOOSE s \in [1..Cardinality(BRAND_TOKENS) -> BRAND_TOKENS] :
        \A i, j \in DOMAIN s : i < j => CharLen(s[i]) < CharLen(s[j])

\* The alternatives of TOKEN_RE in the order the pattern lists them:
\* sorted(BRAND_TOKENS, key=len, reverse=True).
TOKEN_RE ==
    CHOOSE s \in [1..Cardinality(BRAND_TOKENS) -> BRAND_TOKENS] :
        \A i, j \in DOMAIN s : i < j => CharLen(s[i]) > CharLen(s[j])

BrandMarker(i) == "__PENBRAND_" \o ToString(i) \o "__"
BrackMarker(i) == "__PENPROT_" \o ToString(i) \o "__"

\* tok matches s at index p.
MatchAt(s, p, tok) ==
    /\ p + Len(tok) - 1 <= Len(s)
    /\ \A k \in 1..Len(tok) : s[p + k - 1] = tok[k]

\* TOKEN_RE.sub(sub, s) from index p on, n matches made so far.
RECURSIVE ProtectBrandsRec(_, _, _)
ProtectBrandsRec(s, p, n) ==
    IF p > Len(s) THEN [s |-> <<>>, bag |-> <<>>]
    ELSE LET ks == {k \in DOMAIN TOKEN_RE : MatchAt(s, p, TOKEN_RE[k])}
         IN IF ks = {}
            THEN LET r == ProtectBrandsRec(s, p + 1, n)
                 IN [s |-> <<s[p]>> \o r.s, bag |-> r.bag]
            ELSE LET tok == TOKEN_RE[Min(ks)]
                     r == ProtectBrandsRec(s, p + Len(tok), n + 1)
                 IN [s |-> <<BrandMarker(n)>> \o r.s, bag |-> <<tok>> \o r.bag]

_protect_brands(s) ==
    IF s = <<>> THEN [s |-> s, bag |-> <<>>] ELSE ProtectBrandsRec(s, 1, 0)

\* Last index of the match of BRACK_RE that starts at p, 0 if there is none.
BrackEndAt(s, p) ==
    IF s[p] = "{{" THEN FirstAt(s, p + 1, "}}")
    ELSE IF s[p] = "[[" THEN FirstAt(s, p + 1, "]]")
    ELSE 0

RECURSIVE ProtectBracketsRec(_, _, _)
ProtectBracketsRec(s, p, n) ==
    IF p > Len(s) THEN [s |-> <<>>, bag |-> <<>>]
    ELSE IF BrackEndAt(s, p) = 0
         THEN LET r == ProtectBracketsRec(s, p + 1, n)
              IN [s |-> <<s[p]>> \o r.s, bag |-> r.bag]
         ELSE LET r == ProtectBracketsRec(s, BrackEndAt(s, p) + 1, n + 1)
              IN [s |-> <<BrackMarker(n)>> \o r.s,
                  bag |-> <<SubSeq(s, p, BrackEndAt(s, p))>> \o r.bag]

_protect_brackets(s) ==
    IF s = <<>> THEN [s |-> s, bag |-> <<>>] ELSE ProtectBracketsRec(s, 1, 0)

\* s.replace(marker, val)
ReplaceAll(s, marker, val) ==
    Flatten([i \in 1..Len(s) |-> IF s[i] = marker THEN val ELSE <<s[i]>>])

RECURSIVE RestoreBrandsRec(_, _, _)
RestoreBrandsRec(s, bag, i) ==
    IF i > Len(bag) THEN s
    ELSE RestoreBrandsRec(ReplaceAll(s, BrandMarker(i - 1), bag[i]), bag, i + 1)

_restore_brands(s, bag) == RestoreBrandsRec(s, bag, 1)

RECURSIVE RestoreBracketsRec(_, _, _)
RestoreBracketsRec(s, bag, i) ==
    IF i > Len(bag) THEN s
    ELSE RestoreBracketsRec(ReplaceAll(s, BrackMarker(i - 1), bag[i]), bag, i + 1)

_restore_brackets(s, bag) == RestoreBracketsRec(s, bag, 1)

\* Lines 174-175 on one returned segment (99-100 in translate_text).
Restore(s, brackbag, brandbag) ==
    _restore_brands(_restore_brackets(s, brackbag), brandbag)

\* s.replace on None: lines 83 and 68 raise AttributeError when a bag is not empty.
RestoreRaises(s, brackbag, brandbag) ==
    s = NONE /\ (brackbag # <<>> \/ brandbag # <<>>)

(***************************************************************************)
(* The translation provider                                                *)
(***************************************************************************)
\* What one entry of the response's "translations" list is.
Kinds == {"text", "garbled", "empty", "null", "notext", "nondict"}

\* A provider that upper-cases words and passes every other atom, markers
\* included, through.
Upper(a) ==
    CASE a = "Hello" -> "HELLO"
      [] a = ".ai" -> ".AI"
      [] a = "Reply" -> "REPLY"
      [] a = "More" -> "MORE"
      [] a = "House" -> "HOUSE"
      [] a = "Cognitive" -> "COGNITIVE"
      [] a = "College" -> "COLLEGE"
      [] OTHER -> a

Translate(t) == [i \in 1..Len(t) |-> Upper(t[i])]

\* The value of the "text" field of an entry of the given kind for source text t.
ProviderText(kind, t) ==
    CASE kind = "text" -> Translate(t)
      [] kind = "garbled" -> <<"Bonjour">>
      [] kind = "empty" -> <<>>
      [] kind = "null" -> NONE

\* The answers the provider can give to a request of n texts: an error (network,
\* non-2xx, timeout), a body that is no JSON object, or a translations list that
\* is one short, exact or one long, each entry of any kind.
Responses(n) ==
    {[status |-> "error", entries |-> <<>>], [status |-> "badjson", entries |-> <<>>]}
    \cup {[status |-> "ok", entries |-> e] :
            e \in UNION {[1..m -> Kinds] : m \in {k \in {n - 1, n} : k >= 0}}}
    \cup {[status |-> "ok", entries |-> e \o <<"text">>] : e \in [1..n -> Kinds]}

NoResponse == [status |-> "none", entries |-> <<>>]

\* requests.post is reached (lines 31-34 do not return first).
Posts(texts, l, k) == texts # <<>> /\ k /\ normalise_lang(l) # "en"

\* The same without the except clause's fallback for a short list: the entries
\* that are there are mapped, the rest dropped.
DeeplBatchTruncating(texts, l, k, r) ==
    IF ~Posts(texts, l, k) \/ r.status # "ok" THEN texts
    ELSE [i \in 1..Min({Len(texts), Len(r.entries)}) |->
            IF r.entries[i] \in {"notext", "nondict"} THEN texts[i]
            ELSE ProviderText(r.entries[i], texts[i])]

\* _deepl_batch, lines 28-48: the list it returns.
_deepl_batch(texts, l, k, r) ==
    IF ~Posts(texts, l, k) THEN texts
    ELSE IF r.status # "ok" THEN texts
    ELSE IF Len(r.entries) < Len(texts) THEN texts
    ELSE IF \E i \in 1..Len(texts) : r.entries[i] = "nondict" THEN texts
    ELSE [i \in 1..Len(texts) |->
            IF r.entries[i] = "notext" THEN texts[i]
            ELSE ProviderText(r.entries[i], texts[i])]

(***************************************************************************)
(* Document post-processing, lines 180-196                                 *)
(***************************************************************************)
\* <html\b matches at index s of d.
HtmlAt(d, s) ==
    /\ s + 1 <= Len(d)
    /\ d[s] = "<"
    /\ Lower(d[s + 1]) = "html"
    /\ (s + 1 = Len(d) \/ ~FirstIsWord(d[s + 2]))

\* Last index that [^>]* can reach after the <html that starts at s.
SpanEnd(d, s) ==
    LET g == FirstAt(d, s + 2, ">")
    IN IF g = 0 THEN Len(d) ELSE g - 1

\* name"[^"]*" matches at index j (name is lang= or dir=).
AttrAt(d, j, name) ==
    /\ j + 1 <= Len(d)
    /\ Lower(d[j]) = name
    /\ d[j + 1] = "\""
    /\ FirstAt(d, j + 2, "\"") > 0

NoMatch == [ok |-> FALSE, end |-> 0, repl |-> <<>>]

LangAttr(l) == <<" ", "lang=", "\"", l, "\"">>
DirRtl == <<"dir=", "\"", "rtl", "\"">>

\* Line 183: (<html\b[^>]*?)\s+lang="[^"]*" at s, replaced by group 1.
\* The lazy group stops before the first run of white space that lang= follows.
MatchStripLang(d, s) ==
    IF ~HtmlAt(d, s) THEN NoMatch
    ELSE LET J == {j \in (s + 3)..SpanEnd(d, s) :
                      AttrAt(d, j, "lang=") /\ IsSpace(d[j - 1])}
         IN IF J = {} THEN NoMatch
            ELSE LET j == Min(J)
                     k == Min({m \in (s + 2)..(j - 1) :
                                 \A x \in m..(j - 1) : IsSpace(d[x])})
                 IN [ok |-> TRUE, end |-> FirstAt(d, j + 2, "\""),
                     repl |-> SubSeq(d, s, k - 1)]

\* Lines 184 and 189: (<html\b)([^>]*?)> at s, attr put after group 1.
MatchInsert(d, s, attr) ==
    IF ~HtmlAt(d, s) \/ FirstAt(d, s + 2, ">") = 0 THEN NoMatch
    ELSE [ok |-> TRUE, end |-> FirstAt(d, s + 2, ">"),
          repl |-> SubSeq(d, s, s + 1) \o attr
                   \o SubSeq(d, s + 2, FirstAt(d, s + 2, ">"))]

\* Lines 187 and 192: (<html\b[^>]*\b)dir="[^"]*" at s, replaced by group 1
\* and with.  The greedy group reaches the last dir=" of the tag that a word
\* boundary precedes.
MatchDir(d, s, with) ==
    IF ~HtmlAt(d, s) THEN NoMatch
    ELSE LET J == {j \in (s + 2)..SpanEnd(d, s) :
                      AttrAt(d, j, "dir=") /\ ~LastIsWord(d[j - 1])}
         IN IF J = {} THEN NoMatch
            ELSE [ok |-> TRUE, end |-> FirstAt(d, Max(J) + 2, "\""),
                  repl |-> SubSeq(d, s, Max(J) - 1) \o with]

MatchKind(d, s, kind, l) ==
    CASE kind = "striplang" -> MatchStripLang(d, s)
      [] kind = "setlang" -> MatchInsert(d, s, LangAttr(l))
      [] kind = "setdir" -> MatchDir(d, s, DirRtl)
      [] kind = "insertdir" -> MatchInsert(d, s, <<" ">> \o DirRtl)
      [] kind = "stripdir" -> MatchDir(d, s, <<>>)

\* re.sub of the pattern of the given kind on d from index p on: every match,
\* leftmost first, none overlapping.
RECURSIVE SubAll(_, _, _, _)
SubAll(d, p, kind, l) ==
    IF p > Len(d) THEN <<>>
    ELSE LET m == MatchKind(d, p, kind, l)
         IN IF m.ok THEN m.repl \o SubAll(d, m.end + 1, kind, l)
            ELSE <<d[p]>> \o SubAll(d, p + 1, kind, l)

\* Line 181: re.search(r"<html\b", html2, re.I)
HasHtml(d) == \E s \in 1..Len(d) : HtmlAt(d, s)

\* Line 186: re.search(r'<html[^>]*\bdir=', html2, re.I)
HasDir(d) ==
    \E s \in 1..Len(d) :
        /\ s + 1 <= Len(d)
        /\ d[s] = "<"
        /\ Lower(d[s + 1]) = "html"
        /\ \E j \in (s + 2)..SpanEnd(d, s) :
              Lower(d[j]) = "dir=" /\ ~LastIsWord(d[j - 1])

\* Lines 181-192.
PostHtml(d, l) ==
    IF ~HasHtml(d) THEN d
    ELSE LET a == SubAll(SubAll(d, 1, "striplang", l), 1, "setlang", l)
         IN IF is_rtl(l)
            THEN IF HasDir(a) THEN SubAll(a, 1, "setdir", l)
                 ELSE SubAll(a, 1, "insertdir", l)
            ELSE SubAll(a, 1, "stripdir", l)

\* </head> matches at index s, whatever the case.
HeadCloseAt(d, s) ==
    /\ s + 3 <= Len(d)
    /\ d[s] = "<"
    /\ d[s + 1] = "/"
    /\ Lower(d[s + 2]) = "head"
    /\ d[s + 3] = ">"

Meta(l) == <<"<", "meta", " ", "name=", "\"", "penai-lang", "\"", " ",
             "content=", "\"", l, "\"", ">">>

\* Lines 195-196: the first </head> replaced by the meta marker and </head>.
PostHead(d, l) ==
    LET S == {s \in 1..Len(d) : HeadCloseAt(d, s)}
    IN IF S = {} THEN d
       ELSE SubSeq(d, 1, Min(S) - 1) \o Meta(l) \o <<"<", "/", "head", ">">>
            \o SubSeq(d, Min(S) + 4, Len(d))

(***************************************************************************)
(* translate_html_fragment, lines 117-198, one action per step             *)
(***************************************************************************)
\* Lines 122-135: normalise, the identity fast path, the split.
Enter ==
    /\ pc = "start"
    /\ lang' = normalise_lang(lang_in)
    /\ IF lang' = "en" \/ html = <<>> \/ IsBlank(html)
       THEN /\ pc' = "done"
            /\ result' = html
            /\ UNCHANGED <<parts, pos>>
       ELSE /\ pc' = "scan"
            /\ parts' = Split(html)
            /\ pos' = 1
            /\ UNCHANGED result
    /\ UNCHANGED <<mode, html, lang_in, key, out, jobs, jobs_idx, jobs_brandbags,
                   jobs_brackbags, in_script, in_style, resp, translated, ri,
                   html2, calls, posts, sent>>
    /\ UNCHANGED hookVars

\* Lines 142-168: one iteration of the for loop.
ScanStep ==
    /\ pc = "scan"
    /\ pos <= Len(parts)
    /\ LET p == parts[pos]
           brands == _protect_brands(p)
           bracks == _protect_brackets(brands.s)
       IN IF StartsWith(p, "<")
          THEN /\ in_script' = IF is_closing("script", p) THEN FALSE
                               ELSE IF is_opening("script", p) THEN TRUE
                               ELSE in_script
               /\ in_style' = IF is_closing("style", p) THEN FALSE
                              ELSE IF is_opening("style", p) THEN TRUE
                              ELSE in_style
               /\ out' = Append(out, p)
               /\ UNCHANGED <<jobs, jobs_idx, jobs_brandbags, jobs_brackbags>>
          ELSE IF in_script \/ in_style \/ should_skip_text(p)
          THEN /\ out' = Append(out, p)
               /\ UNCHANGED <<in_script, in_style, jobs, jobs_idx,
                              jobs_brandbags, jobs_brackbags>>
          ELSE /\ jobs_idx' = Append(jobs_idx, Len(out) + 1)
               /\ jobs_brandbags' = Append(jobs_brandbags, brands.bag)
               /\ jobs_brackbags' = Append(jobs_brackbags, bracks.bag)
               /\ jobs' = Append(jobs, bracks.s)
               /\ out' = Append(out, <<>>)
               /\ UNCHANGED <<in_script, in_style>>
    /\ pos' = pos + 1
    /\ UNCHANGED <<mode, html, lang_in, lang, key, pc, parts, resp, translated,
                   ri, html2, result, calls, posts, sent>>
    /\ UNCHANGED hookVars

\* The same with a second invocation of _deepl_batch when the first one failed.
CallBatchRetry ==
    /\ pc = "scan"
    /\ pos > Len(parts)
    /\ jobs # <<>>
    /\ \E r \in IF Posts(jobs, lang, key) THEN Responses(Len(jobs)) ELSE {NoResponse} :
          /\ resp' = r
          /\ translated' = _deepl_batch(jobs, lang, key, r)
          /\ calls' = IF r.status = "error" THEN calls + 2 ELSE calls + 1
          /\ posts' = IF Posts(jobs, lang, key)
                      THEN (IF r.status = "error" THEN posts + 2 ELSE posts + 1)
                      ELSE posts
    /\ sent' = [texts |-> jobs, at |-> pos]
    /\ ri' = 1
    /\ pc' = "restore"
    /\ UNCHANGED <<mode, html, lang_in, lang, key, parts, pos, out, jobs, jobs_idx,
                   jobs_brandbags, jobs_brackbags, in_script, in_style, html2, result>>
    /\ UNCHANGED hookVars

\* Lines 171-172: the loop is over and jobs is not empty; the provider answers.
CallBatch ==
    /\ pc = "scan"
    /\ pos > Len(parts)
    /\ jobs # <<>>
    /\ \E r \in IF Posts(jobs, lang, key) THEN Responses(Len(jobs)) ELSE {NoResponse} :
          /\ resp' = r
          /\ translated' = _deepl_batch(jobs, lang, key, r)
    /\ calls' = calls + 1
    /\ posts' = IF Posts(jobs, lang, key) THEN posts + 1 ELSE posts
    /\ sent' = [texts |-> jobs, at |-> pos]
    /\ ri' = 1
    /\ pc' = "restore"
    /\ UNCHANGED <<mode, html, lang_in, lang, key, parts, pos, out, jobs, jobs_idx,
                   jobs_brandbags, jobs_brackbags, in_script, in_style, html2, result>>
    /\ UNCHANGED hookVars

\* Line 171: the loop is over and jobs is empty.
NoJobs ==
    /\ pc = "scan"
    /\ pos > Len(parts)
    /\ jobs = <<>>
    /\ ri' = 1
    /\ pc' = "restore"
    /\ UNCHANGED <<mode, html, lang_in, lang, key, parts, pos, out, jobs, jobs_idx,
                   jobs_brandbags, jobs_brackbags, in_script, in_style, resp,
                   translated, html2, result, calls, posts, sent>>
    /\ UNCHANGED hookVars

\* Lines 173-176: one iteration of the enumerate loop.
RestoreStep ==
    /\ pc = "restore"
    /\ ri <= Len(translated)
    /\ IF RestoreRaises(translated[ri], jobs_brackbags[ri], jobs_brandbags[ri])
       THEN /\ pc' = "raised"
            /\ UNCHANGED <<out, ri>>
       ELSE /\ out' = [out EXCEPT ![jobs_idx[ri]] =
                          Restore(translated[ri], jobs_brackbags[ri], jobs_brandbags[ri])]
            /\ ri' = ri + 1
            /\ UNCHANGED pc
    /\ UNCHANGED <<mode, html, lang_in, lang, key, parts, pos, jobs, jobs_idx,
                   jobs_brandbags, jobs_brackbags, in_script, in_style, resp,
                   translated, html2, result, calls, posts, sent>>
    /\ UNCHANGED hookVars

\* Line 178: "".join(out) raises TypeError on an element that is None.
Join ==
    /\ pc = "restore"
    /\ ri > Len(translated)
    /\ IF \E i \in 1..Len(out) : out[i] = NONE
       THEN /\ pc' = "raised"
            /\ UNCHANGED html2
       ELSE /\ pc' = "post_html"
            /\ html2' = Flatten(out)
    /\ UNCHANGED <<mode, html, lang_in, lang, key, parts, pos, out, jobs, jobs_idx,
                   jobs_brandbags, jobs_brackbags, in_script, in_style, resp,
                   translated, ri, result, calls, posts, sent>>
    /\ UNCHANGED hookVars

\* Lines 181-192.
SetHtmlLang ==
    /\ pc = "post_html"
    /\ html2' = PostHtml(html2, lang)
    /\ pc' = "post_head"
    /\ UNCHANGED <<mode, html, lang_in, lang, key, parts, pos, out, jobs, jobs_idx,
                   jobs_brandbags, jobs_brackbags, in_script, in_style, resp,
                   translated, ri, result, calls, posts, sent>>
    /\ UNCHANGED hookVars

\* Lines 195-198.
MarkLang ==
    /\ pc = "post_head"
    /\ result' = PostHead(html2, lang)
    /\ pc' = "done"
    /\ UNCHANGED <<mode, html, lang_in, lang, key, parts, pos, out, jobs, jobs_idx,
                   jobs_brandbags, jobs_brackbags, in_script, in_style, resp,
                   translated, ri, html2, calls, posts, sent>>
    /\ UNCHANGED hookVars

\* _deepl_batch called on its own (as translate_text does, line 98).
BatchDirect ==
    /\ pc = "batch_call"
    /\ \E r \in IF Posts(jobs, lang_in, key) THEN Responses(Len(jobs)) ELSE {NoResponse} :
          /\ resp' = r
          /\ translated' = _deepl_batch(jobs, lang_in, key, r)
    /\ calls' = calls + 1
    /\ posts' = IF Posts(jobs, lang_in, key) THEN posts + 1 ELSE posts
    /\ pc' = "batch_ret"
    /\ UNCHANGED <<mode, html, lang_in, lang, key, parts, pos, out, jobs, jobs_idx,
                   jobs_brandbags, jobs_brackbags, in_script, in_style, ri, html2,
                   result, sent>>
    /\ UNCHANGED hookVars

(***************************************************************************)
(* app.py: _set_lang and _translate_response                               *)
(***************************************************************************)
SUPPORTED_LANGS == {"en", "zh", "ar", "ru", "fr", "es", "de", "it"}

\* "text/html" in ctype, on the content types of the model.
IsHtmlType(c) == c = "text/html; charset=utf-8"

ErrorPage == <<"<", "title", ">", "Error", "<", "/", "title", ">">>

\* Lines 46-53.
_set_lang ==
    /\ hpc = "before"
    /\ pen_lang' = IF normalise_lang(req.lang) \in SUPPORTED_LANGS
                   THEN normalise_lang(req.lang) ELSE "en"
    /\ hpc' = "after"
    /\ UNCHANGED <<mode, req, body>>
    /\ UNCHANGED fragVars

\* Lines 131-150: up to the call of translate_html_fragment.
TranslateResponseBegin ==
    /\ hpc = "after"
    /\ IF /\ Lower(req.translate) # "off"
          /\ pen_lang # "en"
          /\ req.status = 200
          /\ IsHtmlType(req.ctype)
          /\ ~req.direct_passthrough
          /\ ~IsBlank(body)
       THEN /\ hpc' = "translating"
            /\ html' = body
            /\ lang_in' = pen_lang
            /\ pc' = "start"
       ELSE /\ hpc' = "sent"
            /\ UNCHANGED <<html, lang_in, pc>>
    /\ UNCHANGED <<mode, req, body, pen_lang, lang, key, parts, pos, out, jobs,
                   jobs_idx, jobs_brandbags, jobs_brackbags, in_script, in_style,
                   resp, translated, ri, html2, result, calls, posts, sent>>

\* The same without the test of line 152: whatever came back is served.
TranslateResponseEndUnchecked ==
    /\ hpc = "translating"
    /\ pc \in {"done", "raised"}
    /\ body' = IF pc = "raised" THEN body ELSE result
    /\ hpc' = "sent"
    /\ UNCHANGED <<mode, req, pen_lang>>
    /\ UNCHANGED fragVars

\* Lines 150-166: translate_html_fragment returned or raised.
TranslateResponseEnd ==
    /\ hpc = "translating"
    /\ pc \in {"done", "raised"}
    /\ body' = IF pc = "raised"
               THEN (IF IsBlank(body) THEN ErrorPage ELSE body)
               ELSE IF result # <<>> /\ ~IsBlank(result) THEN result
               ELSE html
    /\ hpc' = "sent"
    /\ UNCHANGED <<mode, req, pen_lang>>
    /\ UNCHANGED fragVars

(***************************************************************************)
(* Inputs and specifications                                               *)
(***************************************************************************)
SeqsUpTo(S, n) == UNION {[1..m -> S] : m \in 0..n}

\* The documents made of at most n of the given pieces.
PieceDocs(P, n) == {Flatten(ps) : ps \in SeqsUpTo(P, n)}

NoRequest == [translate |-> "", lang |-> "", status |-> 0, ctype |-> "",
              direct_passthrough |-> FALSE, data |-> <<>>]

\* The state at the call of translate_html_fragment(d, l), when mode is
\* "fragment", or of _deepl_batch(texts, l), when it is "batch".
CallState(m, d, texts, l, k) ==
    /\ mode = m
    /\ html = d
    /\ lang_in = l
    /\ lang = ""
    /\ key = k
    /\ pc = (IF m = "fragment" THEN "start" ELSE IF m = "batch" THEN "batch_call" ELSE "idle")
    /\ parts = <<>>
    /\ pos = 1
    /\ out = <<>>
    /\ jobs = texts
    /\ jobs_idx = <<>>
    /\ jobs_brandbags = <<>>
    /\ jobs_brackbags = <<>>
    /\ in_script = FALSE
    /\ in_style = FALSE
    /\ resp = NoResponse
    /\ translated = <<>>
    /\ ri = 1
    /\ html2 = <<>>
    /\ result = <<>>
    /\ calls = 0
    /\ posts = 0
    /\ sent = [texts |-> <<>>, at |-> 0]

NoHook ==
    /\ req = NoRequest
    /\ body = <<>>
    /\ pen_lang = ""
    /\ hpc = "none"

FragmentNext ==
    \/ Enter
    \/ ScanStep
    \/ CallBatch
    \/ NoJobs
    \/ RestoreStep
    \/ Join
    \/ SetHtmlLang
    \/ MarkLang

\* Spec: every string of at most MaxLen atoms, well-formed or not.
Atoms == {"<", ">", "Hello", " "}

Init ==
    \E d \in SeqsUpTo(Atoms, MaxLen), l \in {"fr", "EN-gb"} :
        CallState("fragment", d, <<>>, l, TRUE) /\ NoHook

Next == FragmentNext

Spec == Init /\ [][Next]_vars

\* SpecDoc: documents made of tags, script and style elements, text.
DocPieces ==
    { <<"<", "p", ">">>,
      <<"<", "script", ">">>, <<"<", "/", "script", ">">>,
      <<"<", "style", ">">>, <<"<", "/", "style", ">">>,
      <<"<", "/", "head", ">">>, <<"<", "/", "HEAD", ">">>,
      <<"<", "html", ">">>,
      <<"<", "html", " ", "lang=", "\"", "en", "\"", ">">>,
      <<"<", "html", " ", "dir=", "\"", "ltr", "\"", ">">>,
      <<"<", "html", " ", "dir=", "'ltr'", ">">>,
      <<"<", "html", " ", "data-", "dir=", "\"", "ltr", "\"", ">">>,
      <<"Hello">>, <<"12">> }

InitDoc ==
    \E d \in PieceDocs(DocPieces, MaxPieces), l \in {" fr ", "AR", "EN-gb", "xx", ""},
       k \in BOOLEAN :
        CallState("fragment", d, <<>>, l, k) /\ NoHook

NextDoc == FragmentNext

SpecDoc == InitDoc /\ [][NextDoc]_vars

\* SpecBrand: documents that hold brand tokens and placeholders.
BrandPieces ==
    { <<"PEN">>, <<"PEN", ".ai">>, <<"PEN", " ", "Reply">>, <<"More", " ", "House">>,
      <<"Cognitive", " ", "College">>, <<"{{">>, <<"}}">>, <<"Hello">>,
      <<"<", "html", " ", "lang=", "\"", "PEN", "\"", ">">> }

InitBrand ==
    \E d \in PieceDocs(BrandPieces, MaxBrandPieces), l \in {"fr", "ar"} :
        CallState("fragment", d, <<>>, l, TRUE) /\ NoHook

NextBrand == FragmentNext

SpecBrand == InitBrand /\ [][NextBrand]_vars

\* SpecBatch: _deepl_batch on its own.
BatchTexts == { <<"Hello">>, <<"__PENBRAND_0__", " ", "Hello">> }

InitBatch ==
    \E t \in SeqsUpTo(BatchTexts, MaxTexts), l \in {"fr", "EN-gb", ""}, k \in BOOLEAN :
        CallState("batch", <<>>, t, l, k) /\ NoHook

NextBatch == BatchDirect

SpecBatch == InitBatch /\ [][NextBatch]_vars

\* SpecHook: one request through _set_lang, the route and _translate_response.
HookPieces == { <<"Hello">>, <<" ">>, <<"<", "p", ">">>, <<"<", "html", ">">> }

Requests ==
    [translate : {"", "off", "OFF"}, lang : {"", "fr", "ar", "xx"},
     status : {200, 404}, ctype : {"text/html; charset=utf-8", "text/css"},
     direct_passthrough : BOOLEAN, data : PieceDocs(HookPieces, MaxHookPieces)]

InitHook ==
    \E r \in Requests :
        /\ CallState("hook", <<>>, <<>>, "", TRUE)
        /\ req = r
        /\ body = r.data
        /\ pen_lang = ""
        /\ hpc = "before"

NextHook ==
    \/ _set_lang
    \/ TranslateResponseBegin
    \/ FragmentNext
    \/ TranslateResponseEnd

SpecHook == InitHook /\ [][NextHook]_vars

(***************************************************************************)
(* Definitions the properties are stated with                              *)
(***************************************************************************)
Range(f) == {f[i] : i \in DOMAIN f}

\* translate_html_fragment went past the identity fast path of line 124.
Translating == parts # <<>>

\* The tokens of d that re.split returns for the separators.
TagsOf(d) == LET ps == Split(d) IN [i \in 1..(Len(ps) \div 2) |-> ps[2 * i]]

\* The contents of the elements called name of a token sequence: what lies
\* between an opening tag and the next closing tag, in order.  An element
\* that is never closed has none.
RECURSIVE RegionsRec(_, _, _, _, _)
RegionsRec(ps, i, name, open, cur) ==
    IF i > Len(ps) THEN <<>>
    ELSE IF ~open
         THEN RegionsRec(ps, i + 1, name, is_opening(name, ps[i]), <<>>)
         ELSE IF is_closing(name, ps[i])
              THEN <<cur>> \o RegionsRec(ps, i + 1, name, FALSE, <<>>)
              ELSE RegionsRec(ps, i + 1, name, TRUE, cur \o ps[i])

Regions(d, name) == RegionsRec(Split(d), 1, name, FALSE, <<>>)

\* The translatable text tokens of a token sequence, as the loop of lines
\* 142-168 finds them: position and shielded text, in document order.
RECURSIVE ScanJobs(_, _, _, _)
ScanJobs(ps, i, inScript, inStyle) ==
    IF i > Len(ps) THEN <<>>
    ELSE IF StartsWith(ps[i], "<")
         THEN ScanJobs(ps, i + 1,
                  (inScript \/ is_opening("script", ps[i])) /\ ~is_closing("script", ps[i]),
                  (inStyle \/ is_opening("style", ps[i])) /\ ~is_closing("style", ps[i]))
         ELSE IF inScript \/ inStyle \/ should_skip_text(ps[i])
              THEN ScanJobs(ps, i + 1, inScript, inStyle)
              ELSE << [idx |-> i, text |-> _protect_brackets(_protect_brands(ps[i]).s).s,
                       brackbag |-> _protect_brackets(_protect_brands(ps[i]).s).bag,
                       brandbag |-> _protect_brands(ps[i]).bag] >>
                   \o ScanJobs(ps, i + 1, inScript, inStyle)

ExpectedJobs == ScanJobs(parts, 1, FALSE, FALSE)

\* The attributes of a tag token: the runs of atoms between white space,
\* after the tag name and before the closing ">".
RECURSIVE AttrsRec(_, _, _)
AttrsRec(t, i, cur) ==
    IF i >= Len(t) THEN (IF cur = <<>> THEN <<>> ELSE <<cur>>)
    ELSE IF IsSpace(t[i])
         THEN (IF cur = <<>> THEN <<>> ELSE <<cur>>) \o AttrsRec(t, i + 1, <<>>)
         ELSE AttrsRec(t, i + 1, Append(cur, t[i]))

Attrs(t) == AttrsRec(t, 3, <<>>)

IsLangAttr(a) == Lower(a[1]) = "lang="
IsDirAttr(a) == Lower(a[1]) = "dir="
IsOtherAttr(a) == ~IsLangAttr(a) /\ ~IsDirAttr(a)

\* The <html ...> opening tags among the tag tokens of d.
IsHtmlTag(t) == HtmlAt(t, 1)
HtmlTags(d) == SelectSeq(TagsOf(d), IsHtmlTag)

\* A tag token without the lang and dir attributes of an <html> opening tag.
NormTag(t) ==
    IF IsHtmlTag(t) THEN <<"<", t[2]>> \o Flatten(SelectSeq(Attrs(t), IsOtherAttr)) ELSE t

IsHeadClose(t) == HeadCloseAt(t, 1)

\* The tag tokens of the output without the meta marker before the first </head>.
TagsWithoutMeta(d, l) ==
    LET ts == TagsOf(d)
        H == {i \in 1..Len(ts) : IsHeadClose(ts[i])}
    IN IF H # {} /\ Min(H) > 1 /\ ts[Min(H) - 1] = Meta(l)
       THEN SubSeq(ts, 1, Min(H) - 2) \o SubSeq(ts, Min(H), Len(ts))
       ELSE ts

\* Every returned segment is the source segment or its translation with the
\* markers in place.
MarkersKept ==
    /\ Len(translated) = Len(jobs)
    /\ \A i \in 1..Len(jobs) : translated[i] \in {jobs[i], Translate(jobs[i])}

\* b occurs in d somewhere outside the quoted value of a lang= or dir=
\* attribute that follows <html.
OccursOutsideHtmlAttr(d, b) ==
    \E i \in 1..Len(d) :
        /\ MatchAt(d, i, b)
        /\ ~\E s \in 1..Len(d), j \in 1..Len(d) :
              /\ HtmlAt(d, s)
              /\ j \in (s + 2)..SpanEnd(d, s)
              /\ AttrAt(d, j, "lang=") \/ AttrAt(d, j, "dir=")
              /\ i <= FirstAt(d, j + 2, "\"")
              /\ i + Len(b) - 1 >= j

(***************************************************************************)
(* Properties                                                              *)
(***************************************************************************)
\* C1: what lies between a <script> (or <style>) opening tag and its closing
\* tag in the document is the same in the value translate_html_fragment
\* returns, after the post-processing of lines 180-196 too.
C1_ScriptStyleImmunity ==
    pc = "done" =>
        /\ Regions(result, "script") = Regions(html, "script")
        /\ Regions(result, "style") = Regions(html, "style")

\* C2: when the provider call fails, the document returned equals the
\* document given.
C2_FailOpenIdentity ==
    (pc = "done" /\ posts = 1 /\ resp.status = "error") => result = html

\* C3: translate_html_fragment never raises, whatever the provider answers.
C3_NeverRaises == pc # "raised"

C6_Directionality ==
    (pc = "done" /\ Translating) =>
        /\ Len(HtmlTags(result)) = Len(HtmlTags(html))
        /\ \A i \in 1..Len(HtmlTags(html)) :
              LET o == Attrs(HtmlTags(result)[i])
                  a == Attrs(HtmlTags(html)[i])
              IN /\ SelectSeq(o, IsOtherAttr) = SelectSeq(a, IsOtherAttr)
                 /\ IF is_rtl(lang)
                    THEN SelectSeq(o, IsDirAttr) = <<DirRtl>>
                    ELSE SelectSeq(o, IsDirAttr) = <<>>

\* C7: the tag tokens of the document are the tag tokens of the output, in
\* order and unchanged, but for the lang and dir attributes of <html> opening
\* tags and the meta marker before the first </head>; a text token that is
\* skipped keeps its place and its text.
C7_MarkupUntouched ==
    (pc = "done" /\ Translating) =>
        /\ LET o == TagsWithoutMeta(result, lang)
               a == TagsOf(html)
           IN /\ Len(o) = Len(a)
              /\ \A i \in 1..Len(a) :
                    \/ o[i] = a[i]
                    \/ IsHtmlTag(a[i]) /\ NormTag(o[i]) = NormTag(a[i])
        /\ \A i \in 1..Len(parts) :
              (i \notin Range(jobs_idx)) => out[i] = parts[i]

\* C8: the tokens of the split, joined in order, are the document; they
\* alternate text, tag, text; every token the tag pattern matches is appended
\* to out as it is and never queued for translation.
C8_LosslessSplit ==
    Translating =>
        /\ Flatten(parts) = html
        /\ Len(parts) % 2 = 1
        /\ \A i \in 1..Len(parts) :
              /\ (i % 2 = 0) => IsTagToken(parts[i])
              /\ (i % 2 = 1) => \A k \in 1..Len(parts[i]) : TagEndAt(parts[i], k) = 0
        /\ \A i \in 1..Len(out) :
              IsTagToken(parts[i]) => (out[i] = parts[i] /\ i \notin Range(jobs_idx))

\* C8 witness: a document with a stray ">" in a text token, a tag token and a
\* queued text has been scanned to its end.
C8_Witness ==
    /\ pc = "restore"
    /\ Len(parts) >= 3
    /\ jobs # <<>>
    /\ \E i \in 1..Len(parts) : i % 2 = 1 /\ \E k \in 1..Len(parts[i]) : parts[i][k] = ">"

\* C9: _deepl_batch is invoked at most once and requests.post is called at
\* most once; it is invoked when jobs is not empty, after the last token was
\* scanned, with the shielded translatable texts in document order; the i-th
\* segment returned, restored, is at the place reserved for the i-th queued
\* segment.
C9_SingleRoundTrip ==
    /\ calls <= 1
    /\ posts <= calls
    /\ (Translating /\ pc \in {"restore", "post_html", "post_head", "done", "raised"}) =>
          LET ej == ExpectedJobs
          IN /\ calls = 1 <=> ej # <<>>
             /\ calls = 1 =>
                   /\ sent.at = Len(parts) + 1
                   /\ sent.texts = [i \in 1..Len(ej) |-> ej[i].text]
             /\ pc \in {"post_html", "post_head", "done"} =>
                   /\ Len(translated) = Len(ej)
                   /\ \A i \in 1..Len(ej) :
                         out[ej[i].idx] =
                             Restore(translated[i], ej[i].brackbag, ej[i].brandbag)
    /\ (pc \in {"start", "scan"}) => calls = 0

\* C9 witness: two segments were queued, the provider translated the first
\* and garbled the second, and the call returned.
C9_Witness ==
    /\ pc = "done"
    /\ Len(jobs) = 2
    /\ calls = 1
    /\ posts = 1
    /\ resp.status = "ok"
    /\ resp.entries = <<"text", "garbled">>
    /\ out[jobs_idx[1]] = <<"HELLO">>
    /\ out[jobs_idx[2]] = <<"Bonjour">>

\* C10: a response whose body was not empty is sent with a body that is not
\* empty; the body is the original one when translate=off is given, the
\* language is the base language, the translator raised or returned an empty
\* or blank string; a body that differs is the translator's non-blank result
\* for a 200 text/html response.
C10_DeliveryNeverBroken ==
    hpc = "sent" =>
        /\ req.data # <<>> => body # <<>>
        /\ ( \/ Lower(req.translate) = "off"
             \/ pen_lang = "en"
             \/ pc = "raised"
             \/ (pc = "done" /\ IsBlank(result)) ) => body = req.data
        /\ body # req.data =>
              /\ req.status = 200
              /\ IsHtmlType(req.ctype)
              /\ pc = "done"
              /\ body = result
              /\ ~IsBlank(result)

\* C10 witness: the translator returned an empty string for a body that was
\* not blank, and the original body was served.
C10_Witness ==
    /\ hpc = "sent"
    /\ pc = "done"
    /\ Translating
    /\ result = <<>>
    /\ ~IsBlank(req.data)
    /\ body = req.data

====
